---- MODULE Spec2Model ----
(***************************************************************************)
(* Model of src/main.py: the single-product checkout backend.              *)
(*                                                                         *)
(* Python values: None is the empty tuple <<>>, a value v is <<v>>.        *)
(* Strings that are only compared or concatenated are TLA+ strings;        *)
(* strings that go through str.lower() are tuples of one-character         *)
(* strings.  A dict with a variable key set is a function on its keys.     *)
(***************************************************************************)
EXTENDS Integers, Sequences, FiniteSets, TLC

VARIABLES
    in_stock,           \* PRODUCT["in_stock"]
    MYFATOORAH_TOKEN,   \* os.getenv("MYFATOORAH_TOKEN")
    orders,             \* db["order"], in natural (insertion) order
    order_callbacks,    \* db["order_callbacks"], in insertion order
    next_oid,           \* the store's generator of fresh _id values
    net_calls,          \* number of requests.post calls made so far
    issued,             \* history: the invoice id the gateway issued for each order_id
    last                \* history: the last request handled and what its handler returned

vars == <<in_stock, MYFATOORAH_TOKEN, orders, order_callbacks, next_oid, net_calls, issued, last>>

\* ------------------------------------------------------------------ bounds

MaxOrders == 3
MaxCallbacks == 1

\* ------------------------------------------------------ Python primitives

None == <<>>

Some(v) == <<v>>

\* truthiness of an Optional[str] / Optional[bool]
TruthyStr(v) == v # None /\ v[1] # ""
TruthyBool(v) == v # None /\ v[1]
\* truthiness of an optional string held as a tuple of characters
TruthyChars(v) == v # None /\ v[1] # <<>>

Digit(d) ==
    CASE d = 0 -> "0" [] d = 1 -> "1" [] d = 2 -> "2" [] d = 3 -> "3"
      [] d = 4 -> "4" [] d = 5 -> "5" [] d = 6 -> "6" [] d = 7 -> "7"
      [] d = 8 -> "8" [] d = 9 -> "9"

RECURSIVE IntStr(_)
\* str(n) of a non-negative int
IntStr(n) == IF n < 10 THEN Digit(n) ELSE IntStr(n \div 10) \o Digit(n % 10)

UpperCase == <<"A","B","C","D","E","F","G","H","I","J","K","L","M",
               "N","O","P","Q","R","S","T","U","V","W","X","Y","Z">>
LowerCase == <<"a","b","c","d","e","f","g","h","i","j","k","l","m",
               "n","o","p","q","r","s","t","u","v","w","x","y","z">>

LowerChar(c) ==
    IF \E i \in DOMAIN UpperCase : UpperCase[i] = c
    THEN LowerCase[CHOOSE i \in DOMAIN UpperCase : UpperCase[i] = c]
    ELSE c

\* str.lower()
Lower(s) == [i \in DOMAIN s |-> LowerChar(s[i])]

\* dict.get(k) and dict.get(k, default)
Get(d, k) == IF k \in DOMAIN d THEN d[k] ELSE None
GetDefault(d, k, default) == IF k \in DOMAIN d THEN d[k] ELSE Some(default)

EmptyDict == [k \in {} |-> None]

Min(S) == CHOOSE x \in S : \A y \in S : x <= y

\* ------------------------------------------------------------- catalog

Price == 299

PRODUCT == [id |-> "kalrem-b6",
            title |-> "Kalerm B6 Home Coffee Machine",
            price |-> Price,
            currency |-> "KWD"]

Pending == <<"p","e","n","d","i","n","g">>

\* ------------------------------------------------------- document store

\* a filter value for "_id": an ObjectId equals only an ObjectId
OidValue(n) == [t |-> "oid", n |-> n]
DocValue(d) == [t |-> "doc", d |-> d]
IdEquals(doc, v) == v.t = "oid" /\ v.n = doc._id

\* whether a document matches a pymongo filter dict: every key equal
Matches(doc, filter) ==
    \A k \in DOMAIN filter :
        IF k = "_id" THEN IdEquals(doc, filter[k]) ELSE doc[k] = filter[k]

\* pymongo find_one: the first document of the collection that matches
FindOne(coll, filter) ==
    LET hits == {i \in DOMAIN coll : Matches(coll[i], filter)}
    IN  IF hits = {} THEN None ELSE Some(coll[Min(hits)])

\* pymongo update_one with {"$set": upd}: patches the first match, if any
UpdateOne(coll, filter, upd) ==
    LET hits == {i \in DOMAIN coll : Matches(coll[i], filter)}
    IN  IF hits = {} THEN coll
        ELSE [coll EXCEPT ![Min(hits)] =
                 [f \in DOMAIN @ \cup DOMAIN upd |->
                     IF f \in DOMAIN upd THEN upd[f] ELSE @[f]]]

\* database.create_document: stores the model's fields under a fresh _id
create_document(coll, oid, document) ==
    Append(coll, [f \in DOMAIN document \cup {"_id"} |->
                     IF f = "_id" THEN oid ELSE document[f]])

StoreError == "Database not available"

\* ------------------------------------------------------------ schemas

OrderItem(product_title, unit_price, quantity, currency) ==
    [product_title |-> product_title, unit_price |-> unit_price,
     quantity |-> quantity, currency |-> currency]

Order(customer_name, customer_email, customer_mobile, items, total_amount, currency, status) ==
    [customer_name |-> customer_name, customer_email |-> customer_email,
     customer_mobile |-> customer_mobile, items |-> items,
     total_amount |-> total_amount, currency |-> currency, status |-> status,
     invoice_id |-> None, invoice_url |-> None, payment_id |-> None]

\* ------------------------------------------------ MyFatoorah integration

\* get_myfatoorah_headers: raises HTTPException(500) when the token is unset or empty
get_myfatoorah_headers(token) ==
    IF ~TruthyStr(token)
    THEN [raised |-> TRUE, detail |-> "MyFatoorah token not configured"]
    ELSE [raised |-> FALSE,
          headers |-> [Accept |-> "application/json",
                       Authorization |-> "Bearer " \o token[1]]]

\* the "except Exception as e" result of create_myfatoorah_invoice
ClientException(msg) == ("configured" :> Some(TRUE)) @@ ("error" :> Some(msg))

\* the reason reported for a response that is not a success
FailureReason(data) == GetDefault(data, "Message", "MyFatoorah request failed")

\* the body of the try block once requests.post has returned or raised;
\* gw is what the gateway did with the request
InvoiceResponse(gw) ==
    IF gw.neterr THEN ClientException(gw.errmsg)
    ELSE IF gw.json = "invalid"
         THEN ClientException("Expecting value: line 1 column 1 (char 0)")
    ELSE IF gw.json = "array"
         THEN ClientException("'list' object has no attribute 'get'")
    ELSE IF gw.status_code = 200 /\ TruthyBool(Get(gw.data, "IsSuccess"))
         THEN IF "Data" \notin DOMAIN gw.data
              THEN ClientException("'Data'")
              ELSE IF gw.data["Data"] = None
              THEN ClientException("'NoneType' object is not subscriptable")
              ELSE IF "InvoiceId" \notin DOMAIN gw.data["Data"][1]
              THEN ClientException("'InvoiceId'")
              ELSE ("configured" :> Some(TRUE))
                   @@ ("invoice_id" :> Some(IntStr(gw.data["Data"][1]["InvoiceId"][1])))
                   @@ ("invoice_url" :> Get(gw.data["Data"][1], "InvoiceURL"))
         ELSE ("configured" :> Some(TRUE))
              @@ ("error" :> FailureReason(gw.data))
              @@ ("details" :> Some(gw.data))

\* create_myfatoorah_invoice: the result dict, and whether requests.post was called
create_myfatoorah_invoice(token, gw) ==
    LET h == get_myfatoorah_headers(token)
    IN  IF h.raised
        THEN [mf |-> ("configured" :> Some(FALSE)) @@ ("error" :> Some(h.detail)),
              posted |-> FALSE]
        ELSE [mf |-> InvoiceResponse(gw), posted |-> TRUE]

\* the three kinds of result dict, by the return statement that built it
NotConfigured(mf) == ~TruthyBool(Get(mf, "configured"))
Succeeded(mf) == TruthyBool(Get(mf, "configured")) /\ "invoice_id" \in DOMAIN mf
FailedResult(mf) == TruthyBool(Get(mf, "configured")) /\ "error" \in DOMAIN mf

\* ------------------------------------------------------------ checkout

\* faulty variant: the stock flag is never consulted
OutOfStockIgnored(stock) == FALSE

\* the out-of-stock test that opens checkout
OutOfStock(stock) == ~stock

\* faulty variant: the item is built with quantity 2
BuildOrderTwoItems(req) ==
    LET item == OrderItem(PRODUCT.title, PRODUCT.price, 2, PRODUCT.currency)
    IN  Order(req.customer_name, req.customer_email, req.customer_mobile,
              <<item>>, item.unit_price * item.quantity, PRODUCT.currency, Pending)

\* the OrderItem and the Order checkout builds from the request
BuildOrder(req) ==
    LET item == OrderItem(PRODUCT.title, PRODUCT.price, 1, PRODUCT.currency)
    IN  Order(req.customer_name, req.customer_email, req.customer_mobile,
              <<item>>, item.unit_price * item.quantity, PRODUCT.currency, Pending)

\* faulty variant: the success branch tests the invoice id instead of the invoice URL
CheckoutDecisionByInvoiceId(mf) ==
    IF TruthyBool(Get(mf, "configured")) /\ TruthyStr(Get(mf, "invoice_id"))
    THEN [payment_url |-> mf["invoice_url"], message |-> "Proceed to payment",
          save |-> TRUE]
    ELSE IF ~TruthyBool(Get(mf, "configured"))
    THEN [payment_url |-> None,
          message |-> "Payment gateway not configured. Contact support.",
          save |-> FALSE]
    ELSE [payment_url |-> None,
          message |-> "Payment creation failed: "
                        \o GetDefault(mf, "error", "Unknown error")[1],
          save |-> FALSE]

\* payment_url, message, and whether the invoice details are saved, from the client's result
CheckoutDecision(mf) ==
    IF TruthyBool(Get(mf, "configured")) /\ TruthyStr(Get(mf, "invoice_url"))
    THEN [payment_url |-> mf["invoice_url"], message |-> "Proceed to payment",
          save |-> TRUE]
    ELSE IF ~TruthyBool(Get(mf, "configured"))
    THEN [payment_url |-> None,
          message |-> "Payment gateway not configured. Contact support.",
          save |-> FALSE]
    ELSE [payment_url |-> None,
          message |-> "Payment creation failed: "
                        \o GetDefault(mf, "error", "Unknown error")[1],
          save |-> FALSE]

\* the "save invoice details" statement: update_one filtered on {"_id": <what the
\* nested find_one calls return>}; any exception is swallowed
SaveInvoiceDetails(coll, payment_url, store_ok) ==
    IF ~store_ok THEN coll
    ELSE LET first == FindOne(coll, EmptyDict)
         IN  IF first = None THEN coll
             ELSE LET found == FindOne(coll, "_id" :> OidValue(first[1]._id))
                      value == IF found = None THEN [t |-> "null"] ELSE DocValue(found[1])
                  IN  UpdateOne(coll, "_id" :> value, "invoice_url" :> payment_url)

\* checkout(req) with the store holding coll; gw is what the gateway does,
\* create_ok / patch_ok whether the store is reachable for each write
checkout(req, gw, create_ok, patch_ok, stock, token, coll, oid, posts) ==
    IF OutOfStock(stock)
    THEN [orders |-> coll, next_oid |-> oid, net_calls |-> posts,
          raised |-> Some([status_code |-> 400, detail |-> "Product out of stock"]),
          resp |-> None, mf |-> None, gw |-> None, patch_ok |-> None]
    ELSE IF ~create_ok
    THEN [orders |-> coll, next_oid |-> oid, net_calls |-> posts,
          raised |-> Some([status_code |-> 500, detail |-> StoreError]),
          resp |-> None, mf |-> None, gw |-> None, patch_ok |-> None]
    ELSE LET created  == create_document(coll, oid, BuildOrder(req))
             order_id == IntStr(oid)
             call     == create_myfatoorah_invoice(token, gw)
             decision == CheckoutDecision(call.mf)
         IN  [orders |-> IF decision.save
                         THEN SaveInvoiceDetails(created, decision.payment_url, patch_ok)
                         ELSE created,
              next_oid |-> oid + 1,
              net_calls |-> IF call.posted THEN posts + 1 ELSE posts,
              raised |-> None,
              resp |-> Some([order_id |-> order_id,
                             payment_url |-> decision.payment_url,
                             message |-> decision.message]),
              mf |-> Some(call.mf),
              gw |-> IF call.posted THEN Some(gw) ELSE None,
              patch_ok |-> IF decision.save THEN Some(patch_ok) ELSE None]

\* ------------------------------------------------------------ callback

\* str(payload.get("InvoiceId")) unless it is None
CallbackInvoiceId(payload) ==
    IF payload.InvoiceId # None THEN Some(IntStr(payload.InvoiceId[1])) ELSE None

\* payload.get("TransactionStatus") or payload.get("InvoiceStatus")
CallbackStatus(payload) ==
    IF TruthyChars(payload.TransactionStatus)
    THEN payload.TransactionStatus
    ELSE payload.InvoiceStatus

\* faulty variant: the status is stored as received, not lower-cased
CallbackUpdateAsReceived(payload) ==
    (IF TruthyStr(payload.PaymentId)
        THEN "payment_id" :> payload.PaymentId ELSE EmptyDict)
    @@ (IF TruthyStr(CallbackInvoiceId(payload))
        THEN "invoice_id" :> CallbackInvoiceId(payload) ELSE EmptyDict)
    @@ (IF TruthyChars(CallbackStatus(payload))
        THEN "status" :> CallbackStatus(payload)[1] ELSE EmptyDict)

\* the update dict built from the payload
CallbackUpdate(payload) ==
    (IF TruthyStr(payload.PaymentId)
        THEN "payment_id" :> payload.PaymentId ELSE EmptyDict)
    @@ (IF TruthyStr(CallbackInvoiceId(payload))
        THEN "invoice_id" :> CallbackInvoiceId(payload) ELSE EmptyDict)
    @@ (IF TruthyChars(CallbackStatus(payload))
        THEN "status" :> Lower(CallbackStatus(payload)[1]) ELSE EmptyDict)

Acknowledge == [raised |-> FALSE, body |-> [ok |-> TRUE]]

\* faulty variant: the exception is not caught
ReportFaultUncaught(msg) == [raised |-> TRUE, body |-> None]

\* except Exception as e: return {"ok": False, "error": str(e)}
ReportFault(msg) == [raised |-> FALSE, body |-> [ok |-> FALSE, error |-> msg]]

\* payment_callback(payload) with the store holding coll and log; upd_ok / ins_ok
\* whether the store is reachable for the order patch and for the audit insert
payment_callback(payload, upd_ok, ins_ok, coll, log) ==
    LET update     == CallbackUpdate(payload)
        invoice_id == CallbackInvoiceId(payload)
        patched    == IF TruthyStr(invoice_id)
                      THEN UpdateOne(coll, "invoice_id" :> invoice_id, update)
                      ELSE coll
    IN  IF DOMAIN update = {}
        THEN [orders |-> coll, order_callbacks |-> log, result |-> Acknowledge]
        ELSE IF TruthyStr(invoice_id) /\ ~upd_ok
        THEN [orders |-> coll, order_callbacks |-> log,
              result |-> ReportFault(StoreError)]
        ELSE IF ~ins_ok
        THEN [orders |-> patched, order_callbacks |-> log,
              result |-> ReportFault(StoreError)]
        ELSE [orders |-> patched,
              order_callbacks |-> Append(log, [payload |-> payload]),
              result |-> Acknowledge]

\* ------------------------------------------------------------- inputs

Requests ==
    { [customer_name |-> "Ann", customer_email |-> None, customer_mobile |-> None],
      [customer_name |-> "Bob", customer_email |-> Some("bob@example.com"),
       customer_mobile |-> Some("5550100")] }

Tokens == { None, Some(""), Some("token") }

InvoiceURLs == { None, Some(""), Some("https://pay.example/inv") }

\* the "Data" member of a response body: missing, null, or an object
DataMembers ==
    { EmptyDict, "Data" :> None }
    \cup { "Data" :> Some(("InvoiceURL" :> u)) : u \in {Some("https://pay.example/inv")} }
    \cup { "Data" :> Some(("InvoiceId" :> Some(i)) @@ (IF u = None THEN EmptyDict ELSE "InvoiceURL" :> u)) :
             i \in {7, 12}, u \in InvoiceURLs }

FlagMembers == { EmptyDict, "IsSuccess" :> Some(TRUE), "IsSuccess" :> Some(FALSE) }

MessageMembers == { EmptyDict, "Message" :> Some(""), "Message" :> Some("Invalid data") }

\* what the gateway can do with a request: a network error or timeout, a body that
\* is not JSON, a JSON array, or a JSON object
GatewayBehaviours ==
    { [neterr |-> TRUE, errmsg |-> "Read timed out. (read timeout=20)"] }
    \cup { [neterr |-> FALSE, status_code |-> c, json |-> j] :
             c \in {200, 500}, j \in {"invalid", "array"} }
    \cup { [neterr |-> FALSE, status_code |-> 200, json |-> "object", data |-> f @@ d] :
             f \in FlagMembers, d \in DataMembers }
    \cup { [neterr |-> FALSE, status_code |-> c, json |-> "object", data |-> f @@ m] :
             c \in {200, 400}, f \in {"IsSuccess" :> Some(FALSE), EmptyDict},
             m \in MessageMembers }
    \cup { [neterr |-> FALSE, status_code |-> 400, json |-> "object",
            data |-> ("IsSuccess" :> Some(TRUE)) @@ m @@ d] :
             m \in MessageMembers,
             d \in { "Data" :> Some(("InvoiceId" :> Some(7))
                                     @@ ("InvoiceURL" :> Some("https://pay.example/inv"))) } }

Paid == <<"P","a","i","d">>
Failed == <<"F","A","I","L","E","D">>

Payloads ==
    [InvoiceId : {None, Some(7), Some(12)},
     PaymentId : {None, Some(""), Some("pay-1")},
     TransactionStatus : {None, Some(<<>>), Some(Paid)},
     InvoiceStatus : {None, Some(Failed)}]

\* orders already in the store when the process starts: the database outlives the
\* process, and an order may carry the invoice id the gateway gave it
StoredOrder(oid, invoice_id) ==
    [create_document(<<>>, oid, BuildOrder(CHOOSE r \in Requests : r.customer_name = "Ann"))[1]
        EXCEPT !.invoice_id = invoice_id]

StoredCollections ==
    { <<>>,
      <<StoredOrder(1, None)>>,
      <<StoredOrder(1, Some("7"))>>,
      <<StoredOrder(1, Some("12"))>>,
      <<StoredOrder(1, Some("12")), StoredOrder(2, Some("7"))>>,
      <<StoredOrder(1, Some("7")), StoredOrder(2, None)>> }

\* the slices of the input space the specifications below explore
GatewaySuccess(i) ==
    [neterr |-> FALSE, status_code |-> 200, json |-> "object",
     data |-> ("IsSuccess" :> Some(TRUE))
              @@ ("Data" :> Some(("InvoiceId" :> Some(i))
                                  @@ ("InvoiceURL" :> Some("https://pay.example/inv"))))]

GatewayRejects ==
    [neterr |-> FALSE, status_code |-> 400, json |-> "object",
     data |-> ("IsSuccess" :> Some(FALSE)) @@ ("Message" :> Some("Invalid data"))]

FewGatewayBehaviours == { GatewaySuccess(7), GatewayRejects }

CallbackPayloads ==
    { p \in Payloads :
        \/ p.InvoiceId = Some(7) /\ p.PaymentId = None
        \/ /\ p.InvoiceId = Some(7) /\ p.PaymentId = Some("pay-1")
           /\ p.InvoiceStatus = None /\ p.TransactionStatus # Some(<<>>)
        \/ /\ p.InvoiceId = None /\ p.InvoiceStatus = None
           /\ <<p.PaymentId, p.TransactionStatus>> \in
                { <<None, None>>, <<Some(""), Some(<<>>)>>,
                  <<Some("pay-1"), None>>, <<None, Some(Paid)>> }
        \/ /\ p.InvoiceId = Some(12) /\ p.PaymentId = None
           /\ p.InvoiceStatus = None /\ p.TransactionStatus = Some(Paid) }

PaidCallback(i) ==
    [InvoiceId |-> Some(i), PaymentId |-> Some("pay-1"),
     TransactionStatus |-> Some(Paid), InvoiceStatus |-> None]

\* ------------------------------------------------------ the state machine

Start(stocks, tokens, stored) ==
    /\ in_stock \in stocks
    /\ MYFATOORAH_TOKEN \in tokens
    /\ orders \in stored
    /\ order_callbacks = <<>>
    /\ next_oid = Len(orders) + 1
    /\ net_calls = 0
    /\ issued = {}
    /\ last = [op |-> "start"]

\* POST /api/checkout, its request and environment drawn from the given sets
Checkout(requests, gateway, create_oks, patch_oks) ==
    \E req \in requests, gw \in gateway, create_ok \in create_oks, patch_ok \in patch_oks :
        LET r == checkout(req, gw, create_ok, patch_ok, in_stock, MYFATOORAH_TOKEN,
                          orders, next_oid, net_calls)
        IN  /\ Len(r.orders) <= MaxOrders
            /\ orders' = r.orders
            /\ next_oid' = r.next_oid
            /\ net_calls' = r.net_calls
            /\ issued' = IF r.mf # None /\ Succeeded(r.mf[1])
                          THEN issued \cup {[order_id |-> r.resp[1].order_id,
                                              invoice_id |-> r.mf[1]["invoice_id"][1]]}
                          ELSE issued
            /\ last' = [op |-> "checkout", req |-> req, raised |-> r.raised,
                        resp |-> r.resp, mf |-> r.mf, gw |-> r.gw,
                        patch_ok |-> r.patch_ok]
            /\ UNCHANGED <<in_stock, MYFATOORAH_TOKEN, order_callbacks>>

\* POST /api/payment/callback, its payload and environment drawn from the given sets
Callback(payloads, upd_oks, ins_oks) ==
    \E payload \in payloads, upd_ok \in upd_oks, ins_ok \in ins_oks :
        LET r == payment_callback(payload, upd_ok, ins_ok, orders, order_callbacks)
        IN  /\ Len(r.order_callbacks) <= MaxCallbacks
            /\ orders' = r.orders
            /\ order_callbacks' = r.order_callbacks
            /\ last' = [op |-> "callback", payload |-> payload, result |-> r.result,
                        upd_ok |-> upd_ok, ins_ok |-> ins_ok]
            /\ UNCHANGED <<in_stock, MYFATOORAH_TOKEN, next_oid, net_calls, issued>>

\* the whole service: checkouts and callbacks interleaved
Init == Start({TRUE}, {Some("token")}, StoredCollections)

Next ==
    \/ Checkout({CHOOSE r \in Requests : r.customer_name = "Bob"},
                {GatewaySuccess(7), GatewaySuccess(12), GatewayRejects}, {TRUE}, {TRUE})
    \/ Callback({PaidCallback(7), PaidCallback(12)}, {TRUE}, {TRUE})

Spec == Init /\ [][Next]_vars

\* checkouts alone: every catalog and store state, a few gateway behaviours
InitCheckout == Start(BOOLEAN, {None, Some("token")}, StoredCollections)

NextCheckout == Checkout(Requests, FewGatewayBehaviours, BOOLEAN, BOOLEAN)

SpecCheckout == InitCheckout /\ [][NextCheckout]_vars

\* the gateway client under every gateway behaviour
InitGateway == Start({TRUE}, Tokens, {<<>>})

NextGateway ==
    Checkout({CHOOSE r \in Requests : r.customer_name = "Ann"}, GatewayBehaviours,
             {TRUE}, BOOLEAN)

SpecGateway == InitGateway /\ [][NextGateway]_vars

\* callbacks alone: every payload shape; store faults on two of them
InitCallback == Start({TRUE}, {Some("token")}, StoredCollections)

NextCallback ==
    \/ Callback(CallbackPayloads, {TRUE}, {TRUE})
    \/ Callback({PaidCallback(7), PaidCallback(12)}, BOOLEAN, BOOLEAN)

SpecCallback == InitCallback /\ [][NextCallback]_vars

\* ---------------------------------------------------- checkout properties

\* the documents of coll that order_id identifies
Identified(coll, order_id) == {i \in DOMAIN coll : IntStr(coll[i]._id) = order_id}

\* C1: a checkout made while the product is in stock that reached the gateway
\* client (whatever its result) added exactly one document to the order
\* collection; the returned order_id identifies that document and no other, and
\* it is pending, has one item of quantity 1, total price x 1 and the product's
\* currency.
C1_CheckoutPersistsOneOrder ==
    [][ (last'.op = "checkout" /\ in_stock /\ last'.mf # None) =>
          /\ Len(orders') = Len(orders) + 1
          /\ \A i \in DOMAIN orders : orders'[i]._id = orders[i]._id
          /\ Identified(orders', last'.resp[1].order_id) = {Len(orders')}
          /\ LET o == orders'[Len(orders')]
             IN  /\ o.status = Pending
                 /\ Len(o.items) = 1
                 /\ o.items[1].quantity = 1
                 /\ o.total_amount = PRODUCT.price * 1
                 /\ o.currency = PRODUCT.currency ]_vars

C1_Witness ==
    /\ last.op = "checkout" /\ in_stock /\ last.mf # None
    /\ FailedResult(last.mf[1])
    /\ Len(orders) = 3

\* C2: after a checkout whose gateway call succeeded and whose patch did not
\* fail, the order the returned order_id identifies has invoice_url equal to the
\* returned payment_url, and every order that was already stored is unchanged.
C2_InvoiceUrlSavedOnCreatedOrder ==
    [][ (/\ last'.op = "checkout" /\ last'.mf # None
         /\ Succeeded(last'.mf[1]) /\ last'.patch_ok = Some(TRUE)) =>
          /\ \A i \in Identified(orders', last'.resp[1].order_id) :
                orders'[i].invoice_url = last'.resp[1].payment_url
          /\ \A i \in DOMAIN orders : orders'[i] = orders[i] ]_vars

\* C9: a checkout made while the stock flag is false is rejected with the
\* out-of-stock client error; it adds no order, changes no order, and makes no
\* gateway call.
C9_OutOfStockRejected ==
    [][ (last'.op = "checkout" /\ ~in_stock) =>
          /\ last'.raised = Some([status_code |-> 400, detail |-> "Product out of stock"])
          /\ last'.resp = None
          /\ last'.mf = None
          /\ orders' = orders
          /\ next_oid' = next_oid
          /\ net_calls' = net_calls ]_vars

C9_Witness ==
    /\ last.op = "checkout" /\ ~in_stock
    /\ last.raised # None /\ last.raised[1].status_code = 400
    /\ TruthyStr(MYFATOORAH_TOKEN)

\* ------------------------------------------------ gateway client properties

\* the gateway answered with HTTP success status and a true success flag
SuccessResponse(gw) ==
    /\ ~gw.neterr
    /\ gw.json = "object"
    /\ gw.status_code = 200
    /\ TruthyBool(Get(gw.data, "IsSuccess"))

\* C7 as stated: the response follows the client's result: Succeeded gives the
\* invoice URL and "Proceed to payment", NotConfigured and Failed give no
\* payment_url and their messages; checkout does not raise.
C7_ResponseFollowsResult ==
    (last.op = "checkout" /\ last.mf # None) =>
        LET mf == last.mf[1]
        IN  /\ last.raised = None
            /\ Succeeded(mf) =>
                  /\ last.resp[1].payment_url = mf["invoice_url"]
                  /\ last.resp[1].message = "Proceed to payment"
            /\ NotConfigured(mf) =>
                  /\ last.resp[1].payment_url = None
                  /\ last.resp[1].message = "Payment gateway not configured. Contact support."
            /\ FailedResult(mf) =>
                  /\ last.resp[1].payment_url = None
                  /\ last.resp[1].message = "Payment creation failed: " \o mf["error"][1]

\* C7 amended: as C7, except that Succeeded gives the invoice URL and "Proceed to
\* payment" only when the invoice URL is non-empty (whether or not the patch
\* succeeded); Succeeded with a missing or empty invoice URL gives no payment_url
\* and "Payment creation failed: Unknown error".
C7_ResponseFollowsResultAndUrl ==
    (last.op = "checkout" /\ last.mf # None) =>
        LET mf == last.mf[1]
        IN  /\ last.raised = None
            /\ last.resp # None
            /\ (Succeeded(mf) /\ TruthyStr(mf["invoice_url"])) =>
                  /\ last.resp[1].payment_url = mf["invoice_url"]
                  /\ last.resp[1].message = "Proceed to payment"
                  /\ last.patch_ok \in {Some(TRUE), Some(FALSE)}
            /\ (Succeeded(mf) /\ ~TruthyStr(mf["invoice_url"])) =>
                  /\ last.resp[1].payment_url = None
                  /\ last.resp[1].message = "Payment creation failed: Unknown error"
            /\ NotConfigured(mf) =>
                  /\ last.resp[1].payment_url = None
                  /\ last.resp[1].message = "Payment gateway not configured. Contact support."
            /\ FailedResult(mf) =>
                  /\ last.resp[1].payment_url = None
                  /\ last.resp[1].message = "Payment creation failed: " \o mf["error"][1]

C7_Witness ==
    /\ last.op = "checkout" /\ last.mf # None
    /\ Succeeded(last.mf[1])
    /\ last.patch_ok = Some(FALSE)
    /\ last.resp[1].message = "Proceed to payment"

\* C8: with credentials the client returns Succeeded only for a response with
\* HTTP success status and a true success flag, and Failed with a non-empty
\* reason for everything else; without credentials it returns NotConfigured and
\* no network call is made.
C8_ClientResult ==
    (last.op = "checkout" /\ last.mf # None) =>
        LET mf == last.mf[1]
        IN  IF TruthyStr(MYFATOORAH_TOKEN)
            THEN /\ last.gw # None
                 /\ Succeeded(mf) => SuccessResponse(last.gw[1])
                 /\ ~Succeeded(mf) => FailedResult(mf) /\ TruthyStr(mf["error"])
            ELSE /\ NotConfigured(mf)
                 /\ last.gw = None
                 /\ net_calls = 0

\* ---------------------------------------------------- callback properties

Acknowledged(l) == l.op = "callback" /\ ~l.result.raised /\ l.result.body.ok

\* the stored orders whose invoice_id is the stringified InvoiceId x
Matching(coll, x) == {i \in DOMAIN coll : coll[i].invoice_id = Some(IntStr(x))}

PatchedFields == {"status", "invoice_id", "payment_id"}

\* C4: every acknowledged callback appended exactly one audit record holding
\* its payload, whatever the payload; with no InvoiceId no order is patched.
C4_AuditAlwaysAppended ==
    [][ Acknowledged(last') =>
          /\ order_callbacks' = Append(order_callbacks, [payload |-> last'.payload])
          /\ last'.payload.InvoiceId = None => orders' = orders ]_vars

\* C5 as stated: an acknowledged callback with InvoiceId X, against a stored
\* order with invoice_id X, sets that order's status to the lower-cased
\* TransactionStatus (InvoiceStatus when TransactionStatus is absent), leaves the
\* fields absent from the payload as they were, creates no order and leaves
\* every other order unchanged.
C5_CallbackRoundTrip ==
    [][ (/\ Acknowledged(last') /\ last'.payload.InvoiceId # None
         /\ Matching(orders, last'.payload.InvoiceId[1]) # {}) =>
          LET p == last'.payload
              S == IF p.TransactionStatus # None THEN p.TransactionStatus
                   ELSE p.InvoiceStatus
              m == Matching(orders, p.InvoiceId[1])
          IN  /\ Len(orders') = Len(orders)
              /\ \A i \in DOMAIN orders :
                    IF i \in m
                    THEN /\ DOMAIN orders'[i] = DOMAIN orders[i]
                         /\ orders'[i].status = IF S # None THEN Lower(S[1])
                                                ELSE orders[i].status
                         /\ p.PaymentId = None => orders'[i].payment_id = orders[i].payment_id
                         /\ \A f \in DOMAIN orders[i] \ PatchedFields :
                               orders'[i][f] = orders[i][f]
                    ELSE orders'[i] = orders[i] ]_vars

\* C5 amended: as C5, with the status taken from TransactionStatus when it is
\* non-empty and from InvoiceStatus otherwise, and a field patched exactly when
\* its payload value is non-empty: status becomes the lower-cased status value,
\* payment_id the PaymentId, invoice_id stays X (on the first stored order with
\* invoice_id X); every other field, every other order and the number of orders
\* are unchanged.
C5_CallbackRoundTripNonEmpty ==
    [][ (/\ Acknowledged(last') /\ last'.payload.InvoiceId # None
         /\ Matching(orders, last'.payload.InvoiceId[1]) # {}) =>
          LET p == last'.payload
              S == IF TruthyChars(p.TransactionStatus) THEN p.TransactionStatus
                   ELSE p.InvoiceStatus
              m == Matching(orders, p.InvoiceId[1])
          IN  /\ Len(orders') = Len(orders)
              /\ \A i \in DOMAIN orders :
                    IF i = Min(m)
                    THEN /\ DOMAIN orders'[i] = DOMAIN orders[i]
                         /\ orders'[i].status = IF TruthyChars(S) THEN Lower(S[1])
                                                ELSE orders[i].status
                         /\ orders'[i].payment_id = IF TruthyStr(p.PaymentId) THEN p.PaymentId
                                                    ELSE orders[i].payment_id
                         /\ orders'[i].invoice_id = Some(IntStr(p.InvoiceId[1]))
                         /\ \A f \in DOMAIN orders[i] \ PatchedFields :
                               orders'[i][f] = orders[i][f]
                    ELSE orders'[i] = orders[i] ]_vars

C5_Witness ==
    /\ Acknowledged(last)
    /\ last.payload.InvoiceId = Some(7)
    /\ last.payload.TransactionStatus = Some(<<>>)
    /\ last.payload.InvoiceStatus = Some(Failed)
    /\ \E i, j \in DOMAIN orders :
          /\ orders[i].invoice_id = Some("7")
          /\ orders[i].status = <<"f","a","i","l","e","d">>
          /\ orders[j].invoice_id = Some("12")
          /\ orders[j].status = Pending

\* C6: in every store state and for every payload, handling the payload twice
\* leaves the orders as handling it once does, and leaves two audit records for it.
C6_CallbackIdempotent ==
    \A p \in CallbackPayloads :
        LET once  == payment_callback(p, TRUE, TRUE, orders, order_callbacks)
            twice == payment_callback(p, TRUE, TRUE, once.orders, once.order_callbacks)
        IN  /\ twice.orders = once.orders
            /\ twice.order_callbacks =
                  order_callbacks \o <<[payload |-> p], [payload |-> p]>>

\* C10: the callback handler never raises; it answers {ok: true} whenever the
\* store was reachable (matched order or not, fields missing or empty), and
\* {ok: false, error: <message>} only when a store access failed.
C10_CallbackNeverRaises ==
    last.op = "callback" =>
        /\ ~last.result.raised
        /\ (last.upd_ok /\ last.ins_ok) => last.result.body = [ok |-> TRUE]
        /\ last.result.body # [ok |-> TRUE] =>
              /\ last.result.body = [ok |-> FALSE, error |-> StoreError]
              /\ ~last.upd_ok \/ ~last.ins_ok

C10_Witness ==
    /\ last.op = "callback"
    /\ ~last.upd_ok
    /\ ~last.result.raised
    /\ last.result.body = [ok |-> FALSE, error |-> StoreError]

\* ---------------------------------------------------- lifecycle property

\* C3: when the gateway issued invoice id X for an order that checkout created,
\* an acknowledged callback carrying InvoiceId X and a status S leaves that
\* order with status lower-cased S and invoice_id X.
C3_CallbackReachesCheckoutOrder ==
    [][ \A c \in issued :
          (/\ Acknowledged(last') /\ last'.payload.InvoiceId # None
           /\ IntStr(last'.payload.InvoiceId[1]) = c.invoice_id
           /\ TruthyChars(last'.payload.TransactionStatus)) =>
             \A i \in Identified(orders', c.order_id) :
                /\ orders'[i].status = Lower(last'.payload.TransactionStatus[1])
                /\ orders'[i].invoice_id = Some(c.invoice_id)
                /\ orders'[i].payment_id = last'.payload.PaymentId ]_vars

====
